---- MODULE Spec2Model ----
(***************************************************************************)
(* Model of testservices/identityservice/userpass.go: the v2 user/password *)
(* identity test double.  UserPass keeps a map of users; AddUser registers *)
(* a user and returns a fresh token; ServeHTTP answers a login request.    *)
(*                                                                         *)
(* Byte strings that carry JSON are modelled by their syntax tree, or by a *)
(* value tagged "invalid" when the text is not JSON.  Go values are        *)
(* modelled as records.  encoding/json is modelled by Decode and Marshal,  *)
(* driven by descriptors of the Go types and their `json:"..."` tags.      *)
(***************************************************************************)
EXTENDS Integers, Sequences, FiniteSets, TLC

(***************************************************************************)
(* Bounds of the model.                                                    *)
(***************************************************************************)
\* AddUser calls (hence tokens issued) in one run
MaxAddUser == 2

Usernames == {"alice", "bob"}
Secrets == {"wonderland", "wrong"}
\* ServeHTTP invocations that may be in flight together
Procs == {"h1", "h2"}
\* goroutines of the harness that call AddUser
Callers == {"c1", "c2"}

(***************************************************************************)
(* JSON syntax trees.  An object is its ordered list of members.           *)
(***************************************************************************)
JStr(s) == [t |-> "str", s |-> s]
JNum(n) == [t |-> "num", n |-> n]
JNull == [t |-> "null"]
JArr(a) == [t |-> "arr", a |-> a]
JObj(m) == [t |-> "obj", m |-> m]
\* text that is not JSON
NotJSONText(raw) == [t |-> "invalid", raw |-> raw]

(***************************************************************************)
(* Descriptors of the Go types of the file.  A struct field is             *)
(* [name, key, type]: the Go name, the JSON key of its tag (the Go name    *)
(* when the field has no tag) and the type of the field.                   *)
(***************************************************************************)
TString == [k |-> "string"]
TInt == [k |-> "int"]
TSlice(elem) == [k |-> "slice", elem |-> elem]
TStruct(fields) == [k |-> "struct", fields |-> fields]
Fld(name, key, type) == [name |-> name, key |-> key, type |-> type]

ErrorResponse ==
    TStruct(<< Fld("Message", "message", TString),
               Fld("Code", "code", TInt),
               Fld("Title", "title", TString) >>)

ErrorWrapper == TStruct(<< Fld("Error", "error", ErrorResponse) >>)

UserPassRequest ==
    TStruct(<< Fld("Auth", "auth",
                 TStruct(<< Fld("PasswordCredentials", "passwordCredentials",
                              TStruct(<< Fld("Username", "username", TString),
                                         Fld("Password", "password", TString) >>)),
                            Fld("TenantName", "tenantName", TString) >>)) >>)

Endpoint ==
    TStruct(<< Fld("AdminURL", "adminURL", TString),
               Fld("InternalURL", "internalURL", TString),
               Fld("PublicURL", "publicURL", TString),
               Fld("Region", "region", TString) >>)

\* Endpoints has no tag: its JSON key is the Go name
Service ==
    TStruct(<< Fld("Name", "name", TString),
               Fld("Type", "type", TString),
               Fld("Endpoints", "Endpoints", TSlice(Endpoint)) >>)

TokenResponse ==
    TStruct(<< Fld("Expires", "expires", TString),
               Fld("Id", "id", TString),
               Fld("Tenant", "tenant",
                 TStruct(<< Fld("Id", "id", TString),
                            Fld("Name", "name", TString) >>)) >>)

RoleResponse ==
    TStruct(<< Fld("Id", "id", TString),
               Fld("Name", "name", TString),
               Fld("TenantId", "tenantId", TString) >>)

UserResponse ==
    TStruct(<< Fld("Id", "id", TString),
               Fld("Name", "name", TString),
               Fld("Roles", "roles", TSlice(RoleResponse)) >>)

AccessResponse ==
    TStruct(<< Fld("Access", "access",
                 TStruct(<< Fld("ServiceCatalog", "serviceCatalog", TSlice(Service)),
                            Fld("Token", "token", TokenResponse),
                            Fld("User", "user", UserResponse) >>)) >>)

(***************************************************************************)
(* Go values.  A slice is [nil, e]: nil or a sequence of elements.         *)
(***************************************************************************)
NilSlice == [nil |-> TRUE, e |-> << >>]
Slice(e) == [nil |-> FALSE, e |-> e]

FieldNames(T) == {T.fields[i].name : i \in 1..Len(T.fields)}
FieldOf(T, name) == CHOOSE i \in 1..Len(T.fields) : T.fields[i].name = name

RECURSIVE Zero(_)
Zero(T) ==
    CASE T.k = "string" -> ""
      [] T.k = "int" -> 0
      [] T.k = "slice" -> NilSlice
      [] T.k = "struct" ->
            [n \in FieldNames(T) |-> Zero(T.fields[FieldOf(T, n)].type)]

(***************************************************************************)
(* encoding/json.  Keys are matched exactly, else ignoring case; Lower     *)
(* folds the keys of the model that differ only by case.                   *)
(***************************************************************************)
Lower(key) ==
    CASE key = "Endpoints" -> "endpoints"
      [] OTHER -> key

\* index of the struct field a JSON key is decoded into, 0 when none
FieldFor(T, key) ==
    LET exact == {i \in 1..Len(T.fields) : T.fields[i].key = key}
        fold == {i \in 1..Len(T.fields) : Lower(T.fields[i].key) = Lower(key)}
        Min(S) == CHOOSE i \in S : \A j \in S : i <= j
    IN  IF exact # {} THEN Min(exact)
        ELSE IF fold # {} THEN Min(fold)
        ELSE 0

RECURSIVE Decode(_, _, _), DecodeMembers(_, _, _)
\* decode the JSON value v into a Go value of type T that holds old
Decode(T, v, old) ==
    CASE v.t = "null" ->
            [err |-> FALSE, val |-> IF T.k = "slice" THEN NilSlice ELSE old]
      [] v.t # "null" /\ T.k = "string" ->
            IF v.t = "str" THEN [err |-> FALSE, val |-> v.s]
            ELSE [err |-> TRUE, val |-> old]
      [] v.t # "null" /\ T.k = "int" ->
            IF v.t = "num" THEN [err |-> FALSE, val |-> v.n]
            ELSE [err |-> TRUE, val |-> old]
      [] v.t # "null" /\ T.k = "slice" ->
            IF v.t = "arr"
            THEN LET rs == [i \in 1..Len(v.a) |->
                              Decode(T.elem, v.a[i], Zero(T.elem))]
                 IN  [err |-> \E i \in 1..Len(v.a) : rs[i].err,
                      val |-> Slice([i \in 1..Len(v.a) |-> rs[i].val])]
            ELSE [err |-> TRUE, val |-> old]
      [] v.t # "null" /\ T.k = "struct" ->
            IF v.t = "obj" THEN DecodeMembers(T, v.m, old)
            ELSE [err |-> TRUE, val |-> old]

\* the members of an object, in order; a key with no field is skipped
DecodeMembers(T, m, old) ==
    IF m = << >> THEN [err |-> FALSE, val |-> old]
    ELSE LET i == FieldFor(T, Head(m)[1])
         IN  IF i = 0 THEN DecodeMembers(T, Tail(m), old)
             ELSE LET f == T.fields[i]
                      r == Decode(f.type, Head(m)[2], old[f.name])
                      rest == DecodeMembers(T, Tail(m),
                                            [old EXCEPT ![f.name] = r.val])
                  IN  [err |-> r.err \/ rest.err, val |-> rest.val]

\* bug: the error of the decoder is dropped
UnmarshalLenient(T, content, old) ==
    IF content.t = "invalid" THEN [err |-> FALSE, val |-> old]
    ELSE [err |-> FALSE, val |-> Decode(T, content, old).val]

\* json.Unmarshal(content, &x): the text is checked first, then decoded
Unmarshal(T, content, old) ==
    IF content.t = "invalid" THEN [err |-> TRUE, val |-> old]
    ELSE Decode(T, content, old)

RECURSIVE MarshalValue(_, _)
MarshalValue(T, val) ==
    CASE T.k = "string" -> JStr(val)
      [] T.k = "int" -> JNum(val)
      [] T.k = "slice" ->
            IF val.nil THEN JNull
            ELSE JArr([i \in 1..Len(val.e) |-> MarshalValue(T.elem, val.e[i])])
      [] T.k = "struct" ->
            JObj([i \in 1..Len(T.fields) |->
                    << T.fields[i].key,
                       MarshalValue(T.fields[i].type, val[T.fields[i].name]) >>])

\* json.Marshal: strings, ints, slices and structs of them never fail
Marshal(T, val) == [err |-> FALSE, content |-> MarshalValue(T, val)]

(***************************************************************************)
(* Constants of the file and of net/http.                                  *)
(***************************************************************************)
StatusOK == 200
StatusBadRequest == 400
StatusUnauthorized == 401
StatusInternalServerError == 500

\* bug: no text is known for the codes
StatusTextUnknown(code) == ""

\* http.StatusText
StatusText(code) ==
    CASE code = 200 -> "OK"
      [] code = 400 -> "Bad Request"
      [] code = 401 -> "Unauthorized"
      [] code = 500 -> "Internal Server Error"
      [] OTHER -> ""

notJSON == "Expecting to find application/json in Content-Type header. The server could not comply with the request since it is either malformed or otherwise incorrect. The client is assumed to be in error."
notAuthorized == "The request you have made requires authentication."
invalidUser == "Invalid user / password"

(***************************************************************************)
(* A literal of the source as the scanner of encoding/json cuts it: the    *)
(* punctuation, the quoted strings, the numbers, and "bad" for characters  *)
(* that begin no JSON value or a string that is never closed.              *)
(***************************************************************************)
Punct(c) == [k |-> c]
StrTok(s) == [k |-> "str", s |-> s]
NumTok(n) == [k |-> "num", n |-> n]
BadTok(s) == [k |-> "bad", s |-> s]

ScanFails == [ok |-> FALSE, v |-> JNull, rest |-> << >>]

\* one JSON value off the front of the tokens ts, and the tokens left
RECURSIVE ScanValue(_)
RECURSIVE ScanMembers(_, _)
ScanValue(ts) ==
    IF ts = << >> THEN ScanFails
    ELSE CASE Head(ts).k = "str" -> [ok |-> TRUE, v |-> JStr(Head(ts).s), rest |-> Tail(ts)]
           [] Head(ts).k = "num" -> [ok |-> TRUE, v |-> JNum(Head(ts).n), rest |-> Tail(ts)]
           [] Head(ts).k = "{" ->
                IF Len(ts) >= 2 /\ ts[2].k = "}"
                THEN [ok |-> TRUE, v |-> JObj(<< >>), rest |-> SubSeq(ts, 3, Len(ts))]
                ELSE ScanMembers(Tail(ts), << >>)
           [] OTHER -> ScanFails

\* the members of an object after its brace: "key": value, then , or }
ScanMembers(ts, acc) ==
    IF Len(ts) < 3 \/ ts[1].k # "str" \/ ts[2].k # ":" THEN ScanFails
    ELSE LET x == ScanValue(SubSeq(ts, 3, Len(ts)))
             m == Append(acc, << ts[1].s, x.v >>)
         IN  IF ~x.ok \/ x.rest = << >> THEN ScanFails
             ELSE IF Head(x.rest).k = "}"
             THEN [ok |-> TRUE, v |-> JObj(m), rest |-> Tail(x.rest)]
             ELSE IF Head(x.rest).k = ","
             THEN ScanMembers(Tail(x.rest), m)
             ELSE ScanFails

\* the bytes of a literal as a JSON text: its value when the whole of it
\* is one JSON value, a text that is not JSON otherwise
Literal(raw, ts) ==
    LET x == ScanValue(ts)
    IN  IF x.ok /\ x.rest = << >> THEN x.v ELSE NotJSONText(raw)

\* the literal of internalError: after "title": comes the letter I, the
\* quote that opens the string is missing, and the quote after Error opens
\* a string that is never closed
internalErrorTokens ==
    << Punct("{"), StrTok("error"), Punct(":"),
       Punct("{"), StrTok("message"), Punct(":"), StrTok("Internal failure"), Punct(","),
                   StrTok("code"), Punct(":"), NumTok(500), Punct(","),
                   StrTok("title"), Punct(":"), BadTok("Internal Server Error"),
                   BadTok("\" } }") >>

internalError ==
    Literal("{ \"error\": { \"message\": \"Internal failure\", \"code\": 500, \"title\": Internal Server Error\" } }",
            internalErrorTokens)

EndpointJSON(admin, internal, public) ==
    JObj(<< <<"adminURL", JStr(admin)>>,
            <<"internalURL", JStr(internal)>>,
            <<"publicURL", JStr(public)>>,
            <<"region", JStr("RegionOne")>> >>)

ServiceJSON(endpoint, name, type) ==
    JObj(<< <<"endpoints", JArr(<< endpoint >>)>>,
            <<"name", JStr(name)>>,
            <<"type", JStr(type)>> >>)

exampleResponse ==
    JObj(<< <<"access", JObj(<<
        <<"serviceCatalog", JArr(<<
            ServiceJSON(EndpointJSON("https://nova-api.trystack.org:9774/v1.1/1",
                                     "https://nova-api.trystack.org:9774/v1.1/1",
                                     "https://nova-api.trystack.org:9774/v1.1/1"),
                        "nova", "compute"),
            ServiceJSON(EndpointJSON("https://GLANCE_API_IS_NOT_DISCLOSED/v1.1/1",
                                     "https://GLANCE_API_IS_NOT_DISCLOSED/v1.1/1",
                                     "https://GLANCE_API_IS_NOT_DISCLOSED/v1.1/1"),
                        "glance", "image"),
            ServiceJSON(EndpointJSON("https://nova-api.trystack.org:5443/v2.0",
                                     "https://keystone.trystack.org:5000/v2.0",
                                     "https://keystone.trystack.org:5000/v2.0"),
                        "keystone", "identity") >>)>>,
        <<"token", JObj(<<
            <<"expires", JStr("2012-02-15T19:32:21")>>,
            <<"id", JStr("5df9d45d-d198-4222-9b4c-7a280aa35666")>>,
            <<"tenant", JObj(<< <<"id", JStr("1")>>,
                                <<"name", JStr("admin")>> >>)>> >>)>>,
        <<"user", JObj(<<
            <<"id", JStr("14")>>,
            <<"name", JStr("annegentle")>>,
            <<"roles", JArr(<<
                JObj(<< <<"id", JStr("2")>>,
                        <<"name", JStr("Member")>>,
                        <<"tenantId", JStr("1")>> >>) >>)>> >>)>> >>)>> >>)

(***************************************************************************)
(* Requests.  A request is the values of its Content-Type header, whether  *)
(* reading its body fails, and the text of its body.                       *)
(***************************************************************************)
ApplicationJSON == "application/json"

\* bug: the last value of the key instead of the first
HeaderGetLast(values) == IF values = << >> THEN "" ELSE values[Len(values)]

\* http.Header.Get: the first value of the key, "" when there is none
HeaderGet(values) == IF values = << >> THEN "" ELSE values[1]

Credentials(username, password) ==
    JObj(<< <<"username", username>>, <<"password", password>> >>)

LoginBody(u, p) ==
    JObj(<< <<"auth", JObj(<< <<"passwordCredentials",
                                Credentials(JStr(u), JStr(p))>> >>)>> >>)

EmptyObject == JObj(<< >>)
UsernameNotString ==
    JObj(<< <<"auth", JObj(<< <<"passwordCredentials",
                                Credentials(JNum(7), JStr("wonderland"))>> >>)>> >>)
Garbage == NotJSONText("garbage")

JSONBodies ==
    {LoginBody(u, p) : u \in Usernames, p \in Secrets}
        \cup {EmptyObject, UsernameNotString, Garbage}

Request(header, readErr, body) ==
    [header |-> header, readErr |-> readErr, body |-> body]

Requests ==
    {Request(<<ApplicationJSON>>, FALSE, b) : b \in JSONBodies}
        \cup {Request(<<ApplicationJSON>>, TRUE, Garbage)}
        \cup {Request(<< >>, TRUE, Garbage)}
        \cup {Request(h, FALSE, b) :
                h \in {<< >>, <<"text/plain", ApplicationJSON>>},
                b \in {LoginBody("alice", "wonderland")}}

NoRequest == Request(<< >>, FALSE, Garbage)

(***************************************************************************)
(* State.                                                                  *)
(***************************************************************************)
VARIABLES
    users,      \* UserPass.users: username -> UserInfo{secret, token}
    issued,     \* tokens randomHexToken has produced so far
    history,    \* per username, the (secret, token) of each AddUser that returned
    pc,         \* position of each ServeHTTP invocation
    r,          \* its request
    req,        \* its decoded UserPassRequest
    userInfo,   \* its userInfo, ok := u.users[...]
    ok,
    w,          \* its http.ResponseWriter
    regAt,      \* the AddUser calls for r's username returned when r arrived
    cpc,        \* position of each AddUser caller
    carg,       \* the user, secret and token of the AddUser call it is in
    raced,      \* accesses of the map that overlapped a conflicting access
    crashed     \* the runtime stopped the process (fatal error)

vars == << users, issued, history, pc, r, req, userInfo, ok, w, regAt,
           cpc, carg, raced, crashed >>

handlerVars == << pc, r, req, userInfo, ok, w, regAt >>
callerVars == << cpc, carg >>

UserInfo(secret, token) == [secret |-> secret, token |-> token]
ZeroUserInfo == UserInfo("", "")

\* the i-th token of the run: tokens do not repeat
randomHexToken(i) == "token-" \o ToString(i)

NewResponseWriter ==
    [header |-> [ContentType |-> "", ContentLength |-> "unset"],
     status |-> << >>,
     body |-> << >>]

NoArg == [user |-> "", secret |-> "", token |-> ""]

NewUserPass == [u \in {} |-> ZeroUserInfo]

Init ==
    /\ users = NewUserPass
    /\ issued = 0
    /\ history = [u \in Usernames |-> << >>]
    /\ pc = [p \in Procs |-> "idle"]
    /\ r = [p \in Procs |-> NoRequest]
    /\ req = [p \in Procs |-> Zero(UserPassRequest)]
    /\ userInfo = [p \in Procs |-> ZeroUserInfo]
    /\ ok = [p \in Procs |-> FALSE]
    /\ w = [p \in Procs |-> NewResponseWriter]
    /\ regAt = [p \in Procs |-> 0]
    /\ cpc = [c \in Callers |-> "idle"]
    /\ carg = [c \in Callers |-> NoArg]
    /\ raced = {}
    /\ crashed = FALSE

(***************************************************************************)
(* The map.                                                                *)
(***************************************************************************)
\* bug: a username that is present keeps its record
MapAssignFirstWins(m, user, info) ==
    [x \in DOMAIN m \cup {user} |-> IF x \in DOMAIN m THEN m[x] ELSE info]

\* bug: a username that is present keeps its token
MapAssignKeepToken(m, user, info) ==
    [x \in DOMAIN m \cup {user} |->
        IF x # user THEN m[x]
        ELSE IF x \in DOMAIN m THEN UserInfo(info.secret, m[x].token)
        ELSE info]

\* bug: the map is made anew with the one record
MapAssignDropsOthers(m, user, info) == [x \in {user} |-> info]

\* u.users[user] = info
MapAssign(m, user, info) ==
    [x \in DOMAIN m \cup {user} |-> IF x = user THEN info ELSE m[x]]

\* bug: a missing key reads as a present zero record
MapAccessAlwaysFound(m, user) ==
    IF user \in DOMAIN m THEN [info |-> m[user], ok |-> TRUE]
    ELSE [info |-> ZeroUserInfo, ok |-> TRUE]

\* bug: a missing key reads the record of a username that is present
MapAccessOtherRecord(m, user) ==
    IF user \in DOMAIN m THEN [info |-> m[user], ok |-> TRUE]
    ELSE IF DOMAIN m # {}
    THEN [info |-> m[CHOOSE x \in DOMAIN m : TRUE], ok |-> TRUE]
    ELSE [info |-> ZeroUserInfo, ok |-> FALSE]

\* info, ok := u.users[user]
MapAccess(m, user) ==
    IF user \in DOMAIN m THEN [info |-> m[user], ok |-> TRUE]
    ELSE [info |-> ZeroUserInfo, ok |-> FALSE]

(***************************************************************************)
(* AddUser, with the accesses of the map ordered: the whole call is one    *)
(* step.                                                                   *)
(***************************************************************************)
AddUser(user, secret) ==
    /\ ~crashed
    /\ issued < MaxAddUser
    /\ LET token == randomHexToken(issued + 1)
       IN  /\ issued' = issued + 1
           /\ users' = MapAssign(users, user, UserInfo(secret, token))
           /\ history' = [history EXCEPT ![user] = Append(@, UserInfo(secret, token))]
    /\ UNCHANGED << handlerVars, callerVars, raced, crashed >>

(***************************************************************************)
(* ReturnFailure.                                                          *)
(***************************************************************************)
SetContentLength(rw, of) ==
    [rw EXCEPT !.header = [@ EXCEPT !.ContentLength = of]]
WriteHeader(rw, status) == [rw EXCEPT !.status = Append(@, status)]
Write(rw, content) == [rw EXCEPT !.body = Append(@, content)]

\* bug: the status of the fallback is written for every failure
ReturnFailureAlways500(rw, status, message) ==
    LET e == [Error |-> [Message |-> message,
                         Code |-> status,
                         Title |-> StatusText(status)]]
        m == Marshal(ErrorWrapper, e)
    IN  IF m.err
        THEN Write(WriteHeader(SetContentLength(rw, "len(internalError)"),
                               StatusInternalServerError),
                   internalError)
        ELSE Write(WriteHeader(SetContentLength(rw, "len(content)"),
                               StatusInternalServerError),
                   m.content)

ReturnFailure(rw, status, message) ==
    LET e == [Error |-> [Message |-> message,
                         Code |-> status,
                         Title |-> StatusText(status)]]
        m == Marshal(ErrorWrapper, e)
    IN  IF m.err
        THEN Write(WriteHeader(SetContentLength(rw, "len(internalError)"),
                               StatusInternalServerError),
                   internalError)
        ELSE Write(WriteHeader(SetContentLength(rw, "len(content)"), status),
                   m.content)

(***************************************************************************)
(* ServeHTTP.  The invocation is cut where it reads the shared map:        *)
(* Receive is the code up to the decoded request, Lookup the read of the   *)
(* map, Respond the rest.                                                  *)
(***************************************************************************)
\* the username the body of a request carries, "" when it carries none
RequestUsername(rq) ==
    Unmarshal(UserPassRequest, rq.body, Zero(UserPassRequest)).val.Auth.PasswordCredentials.Username

\* the AddUser calls for a username that have returned
Registrations(u) == IF u \in Usernames THEN Len(history[u]) ELSE 0

\* bug: the response header is not set
SetContentTypeUnset(rw) == rw

\* w.Header().Set("Content-Type", "application/json")
SetContentType(rw) ==
    [rw EXCEPT !.header = [@ EXCEPT !.ContentType = ApplicationJSON]]

\* bug: a body that cannot be read is rejected through ReturnFailure
CheckRequestReadErrorEnvelope(rw0, rq) ==
    LET rw == SetContentType(rw0)
        d == Unmarshal(UserPassRequest, rq.body, Zero(UserPassRequest))
        Returned(x) == [returned |-> TRUE, w |-> x, req |-> Zero(UserPassRequest)]
    IN  IF HeaderGet(rq.header) # ApplicationJSON
        THEN Returned(ReturnFailure(rw, StatusBadRequest, notJSON))
        ELSE IF rq.readErr
        THEN Returned(ReturnFailure(rw, StatusBadRequest, notJSON))
        ELSE IF d.err
        THEN Returned(ReturnFailure(rw, StatusBadRequest, notJSON))
        ELSE [returned |-> FALSE, w |-> rw, req |-> d.val]

\* bug: the body is read before the content type is checked
CheckRequestReadFirst(rw0, rq) ==
    LET rw == SetContentType(rw0)
        d == Unmarshal(UserPassRequest, rq.body, Zero(UserPassRequest))
        Returned(x) == [returned |-> TRUE, w |-> x, req |-> Zero(UserPassRequest)]
    IN  IF rq.readErr
        THEN Returned(WriteHeader(rw, StatusBadRequest))
        ELSE IF HeaderGet(rq.header) # ApplicationJSON
        THEN Returned(ReturnFailure(rw, StatusBadRequest, notJSON))
        ELSE IF d.err
        THEN Returned(ReturnFailure(rw, StatusBadRequest, notJSON))
        ELSE [returned |-> FALSE, w |-> rw, req |-> d.val]

\* lines 189-204: the response header, the content type, the body.
\* returned tells whether the handler has returned; req dies with it.
CheckRequest(rw0, rq) ==
    LET rw == SetContentType(rw0)
        d == Unmarshal(UserPassRequest, rq.body, Zero(UserPassRequest))
        Returned(x) == [returned |-> TRUE, w |-> x, req |-> Zero(UserPassRequest)]
    IN  IF HeaderGet(rq.header) # ApplicationJSON
        THEN Returned(ReturnFailure(rw, StatusBadRequest, notJSON))
        ELSE IF rq.readErr
        THEN Returned(WriteHeader(rw, StatusBadRequest))
        ELSE IF d.err
        THEN Returned(ReturnFailure(rw, StatusBadRequest, notJSON))
        ELSE [returned |-> FALSE, w |-> rw, req |-> d.val]

\* the code up to the lookup does not read the state: its result for each
\* request, and the username each request carries
Checked == [rq \in Requests |-> CheckRequest(NewResponseWriter, rq)]
Carried == [rq \in Requests |-> RequestUsername(rq)]

Receive(p, rq) ==
    /\ ~crashed
    /\ pc[p] = "idle"
    /\ r' = [r EXCEPT ![p] = rq]
    /\ regAt' = [regAt EXCEPT ![p] = Registrations(Carried[rq])]
    /\ userInfo' = [userInfo EXCEPT ![p] = ZeroUserInfo]
    /\ ok' = [ok EXCEPT ![p] = FALSE]
    /\ LET c == Checked[rq]
       IN  /\ w' = [w EXCEPT ![p] = c.w]
           /\ req' = [req EXCEPT ![p] = c.req]
           /\ pc' = [pc EXCEPT ![p] = IF c.returned THEN "done" ELSE "lookup"]
    /\ UNCHANGED << users, issued, history, callerVars, raced, crashed >>

\* bug: reading a username that is missing inserts its zero record
LookupInsertsMissing(p) ==
    /\ ~crashed
    /\ pc[p] = "lookup"
    /\ LET user == req[p].Auth.PasswordCredentials.Username
           a == MapAccess(users, user)
       IN  /\ userInfo' = [userInfo EXCEPT ![p] = a.info]
           /\ ok' = [ok EXCEPT ![p] = a.ok]
           /\ users' = IF a.ok THEN users ELSE MapAssign(users, user, a.info)
    /\ pc' = [pc EXCEPT ![p] = "verify"]
    /\ UNCHANGED << issued, history, r, req, w, regAt, callerVars,
                    raced, crashed >>

\* userInfo, ok := u.users[req.Auth.PasswordCredentials.Username]
Lookup(p) ==
    /\ ~crashed
    /\ pc[p] = "lookup"
    /\ LET a == MapAccess(users, req[p].Auth.PasswordCredentials.Username)
       IN  /\ userInfo' = [userInfo EXCEPT ![p] = a.info]
           /\ ok' = [ok EXCEPT ![p] = a.ok]
    /\ pc' = [pc EXCEPT ![p] = "verify"]
    /\ UNCHANGED << users, issued, history, r, req, w, regAt, callerVars,
                    raced, crashed >>

\* res := AccessResponse{}; json.Unmarshal([]byte(exampleResponse), &res)
DecodedTemplate == Unmarshal(AccessResponse, exampleResponse, Zero(AccessResponse))

\* bug: the token of the template is left in the response
BuildResponseTemplateToken(token) ==
    [err |-> DecodedTemplate.err, res |-> DecodedTemplate.val]

\* res after the template is decoded and the token is set
BuildResponse(token) ==
    LET d == DecodedTemplate
    IN  [err |-> d.err, res |-> [d.val EXCEPT !.Access.Token.Id = token]]

\* bug: the secret is not compared
AuthenticateNoSecretCheck(rw, found, info, request) ==
    LET b == BuildResponse(info.token)
        m == Marshal(AccessResponse, b.res)
    IN  IF ~found
        THEN ReturnFailure(rw, StatusUnauthorized, notAuthorized)
        ELSE IF b.err
        THEN ReturnFailure(rw, StatusInternalServerError, "json: cannot unmarshal")
        ELSE IF m.err
        THEN ReturnFailure(rw, StatusInternalServerError, "json: unsupported type")
        ELSE Write(WriteHeader(rw, StatusOK), m.content)

\* bug: the return after the rejection of the secret is missing
AuthenticateNoReturn(rw, found, info, request) ==
    LET b == BuildResponse(info.token)
        m == Marshal(AccessResponse, b.res)
    IN  IF ~found
        THEN ReturnFailure(rw, StatusUnauthorized, notAuthorized)
        ELSE IF info.secret # request.Auth.PasswordCredentials.Password
        THEN Write(WriteHeader(ReturnFailure(rw, StatusUnauthorized, invalidUser),
                               StatusOK),
                   m.content)
        ELSE IF b.err
        THEN ReturnFailure(rw, StatusInternalServerError, "json: cannot unmarshal")
        ELSE IF m.err
        THEN ReturnFailure(rw, StatusInternalServerError, "json: unsupported type")
        ELSE Write(WriteHeader(rw, StatusOK), m.content)

\* lines 206-230: the checks of the record read from the map, the response
Authenticate(rw, found, info, request) ==
    LET b == BuildResponse(info.token)
        m == Marshal(AccessResponse, b.res)
    IN  IF ~found
        THEN ReturnFailure(rw, StatusUnauthorized, notAuthorized)
        ELSE IF info.secret # request.Auth.PasswordCredentials.Password
        THEN ReturnFailure(rw, StatusUnauthorized, invalidUser)
        ELSE IF b.err
        THEN ReturnFailure(rw, StatusInternalServerError, "json: cannot unmarshal")
        ELSE IF m.err
        THEN ReturnFailure(rw, StatusInternalServerError, "json: unsupported type")
        ELSE Write(WriteHeader(rw, StatusOK), m.content)

\* lines 206-231: whether one of the branches returns.  Past the lookup
\* and the secret, the if of the template returns when it failed, and the
\* last if returns in its body and in its else, whatever the two errors are
AllPathsReturn(found, info, request) ==
    \/ ~found
    \/ info.secret # request.Auth.PasswordCredentials.Password
    \/ \A templateErr \in BOOLEAN, encodingErr \in BOOLEAN :
            templateErr \/ encodingErr \/ ~encodingErr

\* the handler returns, or reaches the panic of line 231
Respond(p) ==
    /\ ~crashed
    /\ pc[p] = "verify"
    /\ w' = [w EXCEPT ![p] = Authenticate(@, ok[p], userInfo[p], req[p])]
    /\ pc' = [pc EXCEPT ![p] = IF AllPathsReturn(ok[p], userInfo[p], req[p])
                               THEN "done" ELSE "panic"]
    /\ req' = [req EXCEPT ![p] = Zero(UserPassRequest)]
    /\ userInfo' = [userInfo EXCEPT ![p] = ZeroUserInfo]
    /\ ok' = [ok EXCEPT ![p] = FALSE]
    /\ UNCHANGED << users, issued, history, r, regAt, callerVars, raced, crashed >>

\* the client has read the response: the server is free for a new request
Collect(p) ==
    /\ ~crashed
    /\ pc[p] = "done"
    /\ pc' = [pc EXCEPT ![p] = "idle"]
    /\ r' = [r EXCEPT ![p] = NoRequest]
    /\ w' = [w EXCEPT ![p] = NewResponseWriter]
    /\ regAt' = [regAt EXCEPT ![p] = 0]
    /\ UNCHANGED << users, issued, history, req, userInfo, ok, callerVars,
                    raced, crashed >>

Next ==
    \/ \E user \in Usernames, secret \in Secrets : AddUser(user, secret)
    \/ \E p \in Procs : Collect(p)
    \/ \E p \in Procs, rq \in Requests : Receive(p, rq)
    \/ \E p \in Procs : Lookup(p)
    \/ \E p \in Procs : Respond(p)

Spec == Init /\ [][Next]_vars

(***************************************************************************)
(* The same program with the accesses of the map as the code makes them:   *)
(* without a lock.  An access lasts from its Begin to its End, and an      *)
(* access that overlaps a conflicting one is a data race: the runtime may  *)
(* stop the process, a read may see any record or none, a write may be     *)
(* lost.                                                                   *)
(***************************************************************************)
reading == {p \in Procs : pc[p] = "reading"}
writing == {c \in Callers : cpc[c] = "writing"}

AddUserBegin(c, user, secret) ==
    /\ ~crashed
    /\ cpc[c] = "idle"
    /\ issued < MaxAddUser
    /\ issued' = issued + 1
    /\ carg' = [carg EXCEPT ![c] = [user |-> user, secret |-> secret,
                                    token |-> randomHexToken(issued + 1)]]
    /\ cpc' = [cpc EXCEPT ![c] = "writing"]
    /\ raced' = IF reading \cup writing = {} THEN raced
                ELSE raced \cup reading \cup writing \cup {c}
    /\ UNCHANGED << users, history, handlerVars, crashed >>

AddUserEnd(c) ==
    /\ ~crashed
    /\ cpc[c] = "writing"
    /\ cpc' = [cpc EXCEPT ![c] = "idle"]
    /\ carg' = [carg EXCEPT ![c] = NoArg]
    /\ raced' = raced \ {c}
    /\ LET info == UserInfo(carg[c].secret, carg[c].token)
           Returns == history' = [history EXCEPT ![carg[c].user] = Append(@, info)]
       IN  \/ /\ users' = MapAssign(users, carg[c].user, info)
              /\ Returns
              /\ UNCHANGED crashed
           \/ /\ c \in raced
              /\ users' = users
              /\ Returns
              /\ UNCHANGED crashed
           \/ /\ c \in raced
              /\ crashed' = TRUE
              /\ UNCHANGED << users, history >>
    /\ UNCHANGED << issued, handlerVars >>

LookupBegin(p) ==
    /\ ~crashed
    /\ pc[p] = "lookup"
    /\ pc' = [pc EXCEPT ![p] = "reading"]
    /\ raced' = IF writing = {} THEN raced ELSE raced \cup writing \cup {p}
    /\ UNCHANGED << users, issued, history, r, req, userInfo, ok, w, regAt,
                    callerVars, crashed >>

\* the records a read that raced with a write may find in the map: those
\* it holds and those being written
RacyRecords ==
    {users[u] : u \in DOMAIN users}
        \cup {UserInfo(carg[c].secret, carg[c].token) : c \in writing}

\* what a read that raced with a write may return: nothing, a record, or
\* the fields of a record that is overwritten while it is copied, the
\* secret of one and the token of the other
RacyReads ==
    {[info |-> ZeroUserInfo, ok |-> FALSE]}
        \cup {[info |-> UserInfo(a.secret, b.token), ok |-> TRUE] :
                a \in RacyRecords, b \in RacyRecords}

LookupEnd(p) ==
    /\ ~crashed
    /\ pc[p] = "reading"
    /\ pc' = [pc EXCEPT ![p] = "verify"]
    /\ raced' = raced \ {p}
    /\ \/ /\ p \notin raced
          /\ LET a == MapAccess(users, req[p].Auth.PasswordCredentials.Username)
             IN  /\ userInfo' = [userInfo EXCEPT ![p] = a.info]
                 /\ ok' = [ok EXCEPT ![p] = a.ok]
          /\ UNCHANGED crashed
       \/ /\ p \in raced
          /\ \E a \in RacyReads :
                /\ userInfo' = [userInfo EXCEPT ![p] = a.info]
                /\ ok' = [ok EXCEPT ![p] = a.ok]
          /\ UNCHANGED crashed
       \/ /\ p \in raced
          /\ crashed' = TRUE
          /\ UNCHANGED << userInfo, ok >>
    /\ UNCHANGED << users, issued, history, r, req, w, regAt, callerVars >>

LoginRequests ==
    {Request(<<ApplicationJSON>>, FALSE, LoginBody(u, p)) :
        u \in Usernames, p \in Secrets}

\* reads do not conflict with each other: one invocation and the two
\* callers make every kind of conflicting pair
RaceProcs == {"h1"}

NextRace ==
    \/ \E c \in Callers, user \in Usernames, secret \in Secrets :
            AddUserBegin(c, user, secret)
    \/ \E c \in Callers : AddUserEnd(c)
    \/ \E p \in RaceProcs, rq \in LoginRequests : Receive(p, rq)
    \/ \E p \in RaceProcs : LookupBegin(p)
    \/ \E p \in RaceProcs : LookupEnd(p)
    \/ \E p \in RaceProcs : Respond(p)
    \/ \E p \in RaceProcs : Collect(p)

SpecRace == Init /\ [][NextRace]_vars

(***************************************************************************)
(* What a client and the harness observe.                                  *)
(***************************************************************************)
\* the value of the member of a JSON object named key, JNull when none
Member(v, key) ==
    IF v.t = "obj" /\ \E i \in 1..Len(v.m) : v.m[i][1] = key
    THEN v.m[CHOOSE i \in 1..Len(v.m) : v.m[i][1] = key][2]
    ELSE JNull

\* every string a JSON text contains
RECURSIVE Strings(_)
Strings(v) ==
    CASE v.t = "str" -> {v.s}
      [] v.t = "arr" -> UNION {Strings(v.a[i]) : i \in 1..Len(v.a)}
      [] v.t = "obj" -> UNION {Strings(v.m[i][2]) : i \in 1..Len(v.m)}
      [] OTHER -> {}

Done(p) == pc[p] = "done"
\* the response of a finished invocation is one status and one body
Answered(p, status) ==
    /\ Done(p)
    /\ w[p].status = << status >>
    /\ Len(w[p].body) = 1
Body(p) == w[p].body[1]
TokenId(p) == Member(Member(Member(Body(p), "access"), "token"), "id")
ErrorMessage(p) == Member(Member(Body(p), "error"), "message")

\* the request of p is a well-formed login for (u, pw)
IsLogin(p, u, pw) ==
    /\ pc[p] # "idle"
    /\ r[p] = Request(<<ApplicationJSON>>, FALSE, LoginBody(u, pw))

\* u is registered and no AddUser(u, ...) returned since the request of p arrived
Settled(p, u) == history[u] # << >> /\ regAt[p] = Len(history[u])
LastAddUser(u) == history[u][Len(history[u])]
IssuedTokens == {randomHexToken(i) : i \in 1..issued}

(***************************************************************************)
(* C1: a login with the username and the secret of the latest AddUser for  *)
(* that username is answered 200 with the token that AddUser returned,     *)
(* whatever happened to other usernames.                                   *)
(***************************************************************************)
C1_LoginReturnsRegisteredToken ==
    \A p \in Procs, u \in Usernames, s \in Secrets :
        (Done(p) /\ IsLogin(p, u, s) /\ Settled(p, u) /\ LastAddUser(u).secret = s)
            => /\ Answered(p, StatusOK)
               /\ TokenId(p) = JStr(LastAddUser(u).token)

\* a correct login is answered after another username was registered later
C1_Witness ==
    \E p \in Procs, u \in Usernames, o \in Usernames :
        /\ o # u /\ history[o] # << >> /\ Settled(p, u)
        /\ LastAddUser(o).token = randomHexToken(issued)
        /\ Done(p) /\ IsLogin(p, u, LastAddUser(u).secret)
        /\ \E q \in Procs : q # p /\ Done(q) /\ IsLogin(q, o, LastAddUser(o).secret)

(***************************************************************************)
(* C2: a well-formed login for a registered username with a password that  *)
(* is not its secret is answered 401 "Invalid user / password", and the    *)
(* response holds no token.                                                *)
(***************************************************************************)
C2_WrongPasswordRejected ==
    \A p \in Procs, u \in Usernames, pw \in Secrets :
        (Done(p) /\ IsLogin(p, u, pw) /\ Settled(p, u) /\ LastAddUser(u).secret # pw)
            => /\ Answered(p, StatusUnauthorized)
               /\ ErrorMessage(p) = JStr(invalidUser)
               /\ Member(Body(p), "access") = JNull
               /\ Strings(Body(p)) \cap IssuedTokens = {}

C2_Witness ==
    \E p \in Procs, u \in Usernames, pw \in Secrets :
        /\ Done(p) /\ IsLogin(p, u, pw) /\ Settled(p, u)
        /\ LastAddUser(u).secret # pw
        /\ Answered(p, StatusUnauthorized)

(***************************************************************************)
(* C3: a well-formed login for a username that was never registered is     *)
(* answered 401 "The request you have made requires authentication.".      *)
(***************************************************************************)
C3_UnknownUserRejected ==
    \A p \in Procs, u \in Usernames, pw \in Secrets :
        (Done(p) /\ IsLogin(p, u, pw) /\ history[u] = << >>)
            => /\ Answered(p, StatusUnauthorized)
               /\ ErrorMessage(p) = JStr(notAuthorized)
               /\ ErrorMessage(p) # JStr(invalidUser)

\* the other username is registered, with the password of the request
C3_Witness ==
    \E p \in Procs, u \in Usernames, o \in Usernames, pw \in Secrets :
        /\ Done(p) /\ IsLogin(p, u, pw) /\ history[u] = << >>
        /\ o # u /\ history[o] # << >> /\ LastAddUser(o).secret = pw

(***************************************************************************)
(* C4: a request whose Content-Type is not application/json is answered    *)
(* 400, whatever its body and whoever is registered.                       *)
(***************************************************************************)
C4_ContentTypeRejected ==
    \A p \in Procs :
        (pc[p] # "idle" /\ r[p].header # <<ApplicationJSON>>)
            => Answered(p, StatusBadRequest)

\* the body of the rejected request is a correct login
C4_Witness ==
    \E p \in Procs, u \in Usernames :
        /\ Done(p)
        /\ r[p].header = <<"text/plain", ApplicationJSON>>
        /\ history[u] # << >>
        /\ r[p].body = LoginBody(u, LastAddUser(u).secret)
        /\ regAt[p] = Len(history[u])

(***************************************************************************)
(* C5.  The claim: a request with Content-Type application/json whose body *)
(* is not JSON, or is JSON that does not match the login shape (an empty   *)
(* object, a wrongly typed field), is answered 400 with the content-type   *)
(* message and never reaches the lookup.                                   *)
(***************************************************************************)
JSONRequest(p, bodies) ==
    /\ pc[p] # "idle"
    /\ r[p].header = <<ApplicationJSON>>
    /\ ~r[p].readErr
    /\ r[p].body \in bodies

C5_Original ==
    \A p \in Procs :
        (Done(p) /\ JSONRequest(p, {Garbage, UsernameNotString, EmptyObject}))
            => /\ Answered(p, StatusBadRequest)
               /\ ErrorMessage(p) = JStr(notJSON)

(***************************************************************************)
(* C5 as amended: a body that is not JSON, or JSON with a value of the     *)
(* wrong type for a field of the login shape, is answered 400 with the     *)
(* content-type message and never reaches the lookup; an object that only  *)
(* lacks the fields decodes to empty strings and goes on to the lookup of  *)
(* the empty username, which answers 401 while that name is unregistered.  *)
(***************************************************************************)
C5_MalformedBodyRejected ==
    \A p \in Procs :
        /\ JSONRequest(p, {Garbage, UsernameNotString})
            => /\ Answered(p, StatusBadRequest)
               /\ ErrorMessage(p) = JStr(notJSON)
        /\ JSONRequest(p, {EmptyObject})
            => /\ pc[p] = "lookup" => req[p] = Zero(UserPassRequest)
               /\ pc[p] = "verify" => ~ok[p]
               /\ Done(p) => /\ Answered(p, StatusUnauthorized)
                             /\ ErrorMessage(p) = JStr(notAuthorized)

C5_Witness ==
    \E p \in Procs, q \in Procs :
        /\ JSONRequest(p, {UsernameNotString}) /\ Done(p)
        /\ JSONRequest(q, {EmptyObject}) /\ Done(q)
        /\ users # NewUserPass

(***************************************************************************)
(* C6: logins do not rotate a token: with no AddUser for u since they      *)
(* arrived, all successful logins for u carry the same token id, the one   *)
(* the latest AddUser for u returned, and the store still holds it.        *)
(***************************************************************************)
C6_TokenNotRotated ==
    \A p \in Procs, q \in Procs, u \in Usernames :
        (/\ \E pw \in Secrets : IsLogin(p, u, pw)
         /\ \E pw \in Secrets : IsLogin(q, u, pw)
         /\ Settled(p, u) /\ Settled(q, u)
         /\ Done(p) /\ w[p].status = << StatusOK >>
         /\ Done(q) /\ w[q].status = << StatusOK >>)
            => /\ TokenId(p) = TokenId(q)
               /\ TokenId(p) = JStr(LastAddUser(u).token)
               /\ u \in DOMAIN users /\ users[u].token = LastAddUser(u).token

\* two successful logins for a username that was registered twice
C6_Witness ==
    \E p \in Procs, q \in Procs, u \in Usernames :
        /\ p # q /\ Len(history[u]) = 2
        /\ Settled(p, u) /\ Settled(q, u)
        /\ \E pw \in Secrets : IsLogin(p, u, pw)
        /\ \E pw \in Secrets : IsLogin(q, u, pw)
        /\ Answered(p, StatusOK) /\ Answered(q, StatusOK)

(***************************************************************************)
(* C7: reads of the users map by the handler and writes by AddUser exclude *)
(* each other: no two accesses overlap when one of them is a write.        *)
(***************************************************************************)
C7_MutualExclusion ==
    \A c \in writing : reading = {} /\ writing = {c}

(***************************************************************************)
(* C8: AddUser(u, s1) then AddUser(u, s2), s1 # s2, replaces the record:   *)
(* a login with s1 is answered 401 "Invalid user / password", a login with *)
(* s2 is answered 200 with the token of the second call, not of the first. *)
(***************************************************************************)
C8_ReRegistrationReplaces ==
    \A p \in Procs, u \in Usernames :
        (Done(p) /\ Settled(p, u) /\ Len(history[u]) >= 2)
            => LET first == history[u][Len(history[u]) - 1]
                   second == history[u][Len(history[u])]
               IN  first.secret # second.secret
                    => /\ IsLogin(p, u, first.secret)
                          => /\ Answered(p, StatusUnauthorized)
                             /\ ErrorMessage(p) = JStr(invalidUser)
                       /\ IsLogin(p, u, second.secret)
                          => /\ Answered(p, StatusOK)
                             /\ TokenId(p) = JStr(second.token)
                             /\ TokenId(p) # JStr(first.token)

\* after the second AddUser one login uses the old secret, one the new
C8_Witness ==
    \E p \in Procs, q \in Procs, u \in Usernames :
        /\ Len(history[u]) = 2
        /\ history[u][1].secret # history[u][2].secret
        /\ Done(p) /\ Settled(p, u) /\ IsLogin(p, u, history[u][1].secret)
        /\ Done(q) /\ Settled(q, u) /\ IsLogin(q, u, history[u][2].secret)

(***************************************************************************)
(* The step that ends an invocation, and what decided it.  The template is *)
(* the one thing that can fail after the secret matched: encoding strings, *)
(* numbers, slices and structs of them cannot.                             *)
(***************************************************************************)
Finishes(p) == pc[p] # "done" /\ pc'[p] = "done"

Outcome(p) ==
    IF pc[p] = "verify"
    THEN IF ~ok[p] THEN "unknownUser"
         ELSE IF userInfo[p].secret # req[p].Auth.PasswordCredentials.Password
         THEN "secretMismatch"
         ELSE IF DecodedTemplate.err
         THEN "internal"
         ELSE "success"
    ELSE IF r'[p].header = << >> \/ r'[p].header[1] # ApplicationJSON
         THEN "contentType"
         ELSE IF r'[p].readErr THEN "bodyRead"
         ELSE "bodyDecode"

\* the status the claim gives to each outcome
StatusFor(outcome) ==
    CASE outcome \in {"contentType", "bodyRead", "bodyDecode"} -> 400
      [] outcome \in {"unknownUser", "secretMismatch"} -> 401
      [] outcome = "internal" -> 500
      [] outcome = "success" -> 200

(***************************************************************************)
(* C9: the status written is one of 200, 400, 401, 500 and the outcome     *)
(* decides it: 400 exactly for a content-type mismatch or a body read or   *)
(* decode failure, 401 exactly for an unknown username or a mismatching    *)
(* secret, 500 exactly for a template or encoding failure, 200 exactly for *)
(* a successful authentication.                                            *)
(***************************************************************************)
C9_StatusByOutcome ==
    [][\A p \in Procs :
        Finishes(p) =>
            /\ w'[p].status # << >>
            /\ w'[p].status[1] \in {200, 400, 401, 500}
            /\ w'[p].status[1] = StatusFor(Outcome(p))]_vars

C9_Witness ==
    \E p \in Procs, q \in Procs :
        /\ Done(p) /\ w[p].status = << 200 >>
        /\ Done(q) /\ w[q].status = << 401 >>

(***************************************************************************)
(* C10.  The claim: every rejection carries an envelope                    *)
(* {error:{message, code, title}} written by ReturnFailure, with the code  *)
(* equal to the status written and the title its standard text.           *)
(***************************************************************************)
StandardText(code) ==
    CASE code = 400 -> "Bad Request"
      [] code = 401 -> "Unauthorized"
      [] code = 500 -> "Internal Server Error"

Envelope(code, message) ==
    JObj(<< <<"error", JObj(<< <<"message", JStr(message)>>,
                               <<"code", JNum(code)>>,
                               <<"title", JStr(StandardText(code))>> >>)>> >>)

C10_Original ==
    \A p \in Procs :
        (Done(p) /\ w[p].status # << StatusOK >>)
            => \E code \in {400, 401, 500} :
                \E message \in {notJSON, notAuthorized, invalidUser} :
                    /\ w[p].status = << code >>
                    /\ w[p].body = << Envelope(code, message) >>

(***************************************************************************)
(* C10 as amended: every rejection but that of a body that cannot be read  *)
(* goes through ReturnFailure with the status and the message of the       *)
(* failing transition, and its body is the envelope whose code is the      *)
(* status written and whose title is its standard text; a body read        *)
(* failure writes status 400 with no body.                                 *)
(***************************************************************************)
C10_RejectionEnvelope ==
    [][\A p \in Procs :
        Finishes(p) =>
            LET o == Outcome(p)
                Rejected(code, message) ==
                    /\ w'[p].status = << code >>
                    /\ w'[p].body = << Envelope(code, message) >>
            IN  CASE o \in {"contentType", "bodyDecode"} -> Rejected(400, notJSON)
                  [] o = "unknownUser" -> Rejected(401, notAuthorized)
                  [] o = "secretMismatch" -> Rejected(401, invalidUser)
                  [] o = "internal" -> Rejected(500, "json: cannot unmarshal")
                  [] o = "bodyRead" ->
                        w'[p].status = << 400 >> /\ w'[p].body = << >>
                  [] o = "success" -> w'[p].status = << 200 >>]_vars

\* one invocation failed to read its body, another rejected a password
C10_Witness ==
    \E p \in Procs, q \in Procs :
        /\ Done(p) /\ r[p].readErr /\ w[p].status = << 400 >>
        /\ Done(q) /\ w[q].body = << Envelope(401, invalidUser) >>

(***************************************************************************)
(* C11: every error response ReturnFailure writes carries syntactically    *)
(* valid JSON of the shape {error:{message, code, title}}: the envelope it *)
(* encodes, and internalError, the payload it writes in place of the       *)
(* envelope when the encoding fails.                                       *)
(***************************************************************************)
IsErrorEnvelope(text) ==
    /\ text.t = "obj"
    /\ Member(text, "error").t = "obj"
    /\ Member(Member(text, "error"), "message").t = "str"
    /\ Member(Member(text, "error"), "code").t = "num"
    /\ Member(Member(text, "error"), "title").t = "str"

C11_ErrorPathsValidJSON ==
    \A p \in Procs :
        (Done(p) /\ w[p].status # << StatusOK >> /\ w[p].body # << >>)
            => /\ IsErrorEnvelope(Body(p))
               /\ IsErrorEnvelope(internalError)

(***************************************************************************)
(* C12: when the content type is application/json and reading the body     *)
(* fails, the handler writes status 400 with an empty body and returns: it *)
(* does not call ReturnFailure, does not read the users map and writes     *)
(* nothing more.  No other failure is answered without an error envelope.  *)
(***************************************************************************)
ReadFailed(p) ==
    /\ pc[p] # "idle"
    /\ r[p].header = <<ApplicationJSON>>
    /\ r[p].readErr

C12_BodyReadFailure ==
    \A p \in Procs :
        /\ ReadFailed(p)
            => /\ Done(p)
               /\ w[p].status = << StatusBadRequest >>
               /\ w[p].body = << >>
               /\ w[p].header.ContentLength = "unset"
               /\ userInfo[p] = ZeroUserInfo /\ ~ok[p]
        /\ (/\ Done(p)
            /\ w[p].status # << StatusOK >>
            /\ \A i \in 1..Len(w[p].body) : ~IsErrorEnvelope(w[p].body[i]))
            => ReadFailed(p)

\* the body that could not be read came with the header of a login, the
\* users map is not empty, and another failure was answered with an envelope
C12_Witness ==
    \E p \in Procs, q \in Procs :
        /\ Done(p) /\ ReadFailed(p)
        /\ users # NewUserPass
        /\ Done(q) /\ w[q].status = << StatusBadRequest >> /\ w[q].body # << >>

(***************************************************************************)
(* C13: every response, the success, every failure through ReturnFailure   *)
(* and the bare 400 of a body read failure, carries the response header    *)
(* Content-Type: application/json; it is set before any check and never    *)
(* changed while the request is handled.                                   *)
(***************************************************************************)
C13_ResponseContentType ==
    \A p \in Procs :
        pc[p] # "idle" => w[p].header.ContentType = ApplicationJSON

\* a success, and a body read failure whose request is still uncollected
C13_Witness ==
    \E p \in Procs, q \in Procs :
        /\ Answered(p, StatusOK)
        /\ Done(q) /\ ReadFailed(q) /\ w[q].body = << >>

(***************************************************************************)
(* C14: the success document round-trips.  Decoding the body of a 200      *)
(* gives the value decoded from the template in everything but             *)
(* access.token.id, and the body holds the service catalog of the          *)
(* template: the same services in the same order, each with its name, its  *)
(* type and its endpoints under the field names of the template.           *)
(***************************************************************************)
ServiceCatalog(text) == Member(Member(text, "access"), "serviceCatalog")

SameService(sent, template) ==
    /\ Member(sent, "name") = Member(template, "name")
    /\ Member(sent, "type") = Member(template, "type")
    /\ Member(sent, "endpoints") = Member(template, "endpoints")

C14_SuccessRoundTrips ==
    \A p \in Procs :
        Answered(p, StatusOK) =>
            LET back == Unmarshal(AccessResponse, Body(p), Zero(AccessResponse))
                sent == ServiceCatalog(Body(p))
                template == ServiceCatalog(exampleResponse)
            IN  /\ ~back.err
                /\ back.val = [DecodedTemplate.val EXCEPT
                                    !.Access.Token.Id = back.val.Access.Token.Id]
                /\ sent.t = "arr"
                /\ Len(sent.a) = Len(template.a)
                /\ \A i \in 1..Len(sent.a) : SameService(sent.a[i], template.a[i])

(***************************************************************************)
(* C15: a login is read-only with respect to the users map: no step of     *)
(* ServeHTTP, for any request and any outcome, changes the set of          *)
(* usernames or the secret or the token of a record.                       *)
(***************************************************************************)
C15_LoginReadOnly ==
    [][\A p \in Procs : pc'[p] # pc[p] => users' = users]_vars

\* a login was accepted and another rejected, and both usernames are registered
C15_Witness ==
    \E p \in Procs, q \in Procs :
        /\ Answered(p, StatusOK)
        /\ Answered(q, StatusUnauthorized)
        /\ DOMAIN users = Usernames

(***************************************************************************)
(* C16: the set of registered usernames never shrinks, and a record        *)
(* changes only by an AddUser for its own username: AddUser(u, s) leaves   *)
(* the secret and the token of every other username as they were.          *)
(***************************************************************************)
C16_RegistrationsKept ==
    [][/\ DOMAIN users \subseteq DOMAIN users'
       /\ \A o \in DOMAIN users :
            users'[o] # users[o] => history'[o] # history[o]]_vars

\* the second AddUser was for another username, and a login has been answered
C16_Witness ==
    \E u \in Usernames, o \in Usernames, p \in Procs :
        /\ o # u
        /\ Len(history[u]) = 1 /\ Len(history[o]) = 1
        /\ history[o][1].token = randomHexToken(2)
        /\ users[u] = history[u][1]
        /\ Done(p)

(***************************************************************************)
(* C17: the checks are made in one pass in the order content type, body    *)
(* read, body decode, username lookup, secret comparison, response         *)
(* assembly, and the first that fails alone decides the response: two      *)
(* requests with the same first failing check get the same response        *)
(* whatever the later checks would have said, the map is read only for a   *)
(* request that passed the first three, and an unknown username is never   *)
(* answered with the invalid-password message.                             *)
(***************************************************************************)
\* the first of the checks on the request alone that fails, in the order
\* of the claim
FirstFailing ==
    [rq \in Requests \cup {NoRequest} |->
        IF rq.header = << >> \/ rq.header[1] # ApplicationJSON THEN "contentType"
        ELSE IF rq.readErr THEN "bodyRead"
        ELSE IF Unmarshal(UserPassRequest, rq.body, Zero(UserPassRequest)).err
        THEN "bodyDecode"
        ELSE "none"]

C17_FirstFailureDecides ==
    \A p \in Procs :
        pc[p] # "idle" =>
            /\ FirstFailing[r[p]] # "none"
                => /\ Done(p)
                   /\ userInfo[p] = ZeroUserInfo /\ ~ok[p]
                   /\ w[p].status = << StatusBadRequest >>
                   /\ FirstFailing[r[p]] = "contentType" => w[p].body # << >>
                   /\ \A q \in Procs :
                        (pc[q] # "idle" /\ FirstFailing[r[q]] = FirstFailing[r[p]])
                            => w[q] = w[p]
            /\ pc[p] \in {"lookup", "verify"} => FirstFailing[r[p]] = "none"
            /\ pc[p] = "lookup" => userInfo[p] = ZeroUserInfo /\ ~ok[p] /\ w[p].status = << >>
            /\ pc[p] = "verify" => w[p].status = << >>
            /\ \A u \in Usernames :
                (Done(p) /\ FirstFailing[r[p]] = "none" /\ Carried[r[p]] = u
                 /\ history[u] = << >>)
                    => /\ ErrorMessage(p) = JStr(notAuthorized)
                       /\ \A q \in Procs :
                            (Done(q) /\ FirstFailing[r[q]] = "none" /\ Carried[r[q]] = u)
                                => w[q] = w[p]

\* neither request has the content type: the body of one cannot be read,
\* the other is a correct login of a registered username
C17_Witness ==
    \E p \in Procs, q \in Procs :
        /\ Done(p) /\ r[p] = Request(<< >>, TRUE, Garbage)
        /\ Done(q) /\ r[q] = Request(<<"text/plain", ApplicationJSON>>, FALSE,
                                     LoginBody("alice", "wonderland"))
        /\ "alice" \in DOMAIN users /\ users["alice"].secret = "wonderland"

(***************************************************************************)
(* C18: every invocation ends with exactly one status written and at most  *)
(* one body: nothing is written before the end, an invocation that has not *)
(* ended can take its next step (the read of the map is enabled, and the   *)
(* step after it waits for nothing but a process that runs), and the panic *)
(* after the last branch of ServeHTTP is never reached.                    *)
(***************************************************************************)
C18_ExactlyOneResponse ==
    \A p \in Procs :
        /\ pc[p] \in {"idle", "lookup", "verify", "done"}
        /\ Done(p) => Len(w[p].status) = 1 /\ Len(w[p].body) <= 1
        /\ pc[p] \in {"lookup", "verify"} => w[p].status = << >> /\ w[p].body = << >>
        /\ pc[p] = "lookup" => ENABLED Lookup(p)
        /\ pc[p] = "verify" => ~crashed

\* one invocation ended with a status alone, another with the rejection of
\* a password
C18_Witness ==
    \E p \in Procs, q \in Procs :
        /\ Done(p) /\ Len(w[p].status) = 1 /\ w[p].body = << >>
        /\ Done(q) /\ w[q].status = << StatusUnauthorized >>
        /\ Len(w[q].body) = 1 /\ ErrorMessage(q) = JStr(invalidUser)

(***************************************************************************)
(* C19: no authentication bypass.  A 200 is written only for a request     *)
(* with the JSON content type whose body was read and decoded, whose       *)
(* username was registered when the map was read and whose password is the *)
(* secret of a record the map held for that username since the request     *)
(* arrived; the token in it is the token of that record.  No other         *)
(* response contains a token that AddUser issued.                          *)
(***************************************************************************)
C19_NoAuthenticationBypass ==
    \A p \in Procs :
        Done(p) =>
            IF w[p].status = << StatusOK >>
            THEN /\ FirstFailing[r[p]] = "none"
                 /\ \E u \in Usernames, pw \in Secrets :
                        /\ IsLogin(p, u, pw)
                        /\ \E i \in 1..Len(history[u]) :
                            /\ i >= regAt[p]
                            /\ history[u][i].secret = pw
                            /\ TokenId(p) = JStr(history[u][i].token)
            ELSE \A i \in 1..Len(w[p].body) :
                    Strings(w[p].body[i]) \cap IssuedTokens = {}

\* a username was registered twice: its login with the secret the map holds
\* is accepted, its login with another password is rejected
C19_Witness ==
    \E p \in Procs, q \in Procs, u \in Usernames, pw \in Secrets :
        /\ Len(history[u]) = 2
        /\ Answered(p, StatusOK) /\ IsLogin(p, u, users[u].secret)
        /\ pw # users[u].secret
        /\ Answered(q, StatusUnauthorized) /\ IsLogin(q, u, pw)

(***************************************************************************)
(* C20: a login is atomic with respect to re-registration.  However an     *)
(* AddUser interleaves with a login, the token of a 200 is the token of    *)
(* the very record whose secret the password matched: the record that      *)
(* AddUser wrote with that token has the password of the request as its    *)
(* secret.                                                                 *)
(***************************************************************************)
\* the records AddUser has written or is writing
Written ==
    UNION {{history[u][i] : i \in 1..Len(history[u])} : u \in Usernames}
        \cup {UserInfo(carg[c].secret, carg[c].token) : c \in writing}

C20_LoginAtomic ==
    \A p \in Procs :
        (Done(p) /\ w[p].status = << StatusOK >>)
            => \E u \in Usernames, pw \in Secrets :
                /\ IsLogin(p, u, pw)
                /\ \E record \in Written :
                    /\ TokenId(p) = JStr(record.token)
                    /\ record.secret = pw

====
